---- MODULE Spec2Model ----
(***************************************************************************)
(* Magic Transporters: the load / start-mission / end-mission engine of    *)
(* MoverService over the item, mover and activity-log collections.         *)
(* Every store access (one awaited repository call) is one atomic step;    *)
(* calls interleave freely between their store accesses.                   *)
(***************************************************************************)
EXTENDS Integers, Sequences, FiniteSets, TLC

\* ------------------------------------------------------------------ bounds
\* engine calls issued in one behaviour
MaxCalls == 4
\* engine calls in progress at the same time
MaxInFlight == 2
\* documents created in one collection
MaxDocs == 3
\* error responses sent in one behaviour
MaxErrors == 2
\* engine calls issued in one behaviour with fair scheduling
MaxFairCalls == 3

\* --------------------------------------------------------------- fixtures
\* documents that exist in the collections
Movers == {"m1", "m2"}
Items == {"i1", "i2"}
\* a well-formed id that matches no document
NoMover == "mX"
NULL == "null"
\* stands in assignedTo for an item whose document is no longer in the
\* collection
Deleted == "deleted"

\* MagicItem.weight and MagicMover.weightLimit of the stored documents
weight == ("i1" :> 1) @@ ("i2" :> 2)
weightLimit == ("m1" :> 2) @@ ("m2" :> 3)

\* QuestState
RESTING == "resting"
LOADING == "loading"
ON_MISSION == "on-mission"

\* faulty variant: the validator lets an empty array through
Requests_AllowEmpty ==
  { <<>>, <<"i1">>, <<"i2">>, <<"i1", "i2">>, <<"i1", "i1">>, <<"i1", "iX">> }

\* request bodies of POST /:id/load (itemIds, a non-empty array)
Requests ==
  { <<"i1">>, <<"i2">>, <<"i1", "i2">>, <<"i1", "i1">>, <<"i1", "iX">> }

Slots == 1..MaxInFlight

VARIABLES
  movers,      \* MagicMover documents: questState, currentWeight, items, missionsCompleted
  assignedTo,  \* MagicItem.assignedTo of every item document
  logs,        \* ActivityLog collection in creation order
  calls,       \* the engine calls in progress: arguments, position, locals
               \* (claimed, took, held are history); a returned call keeps
               \* its outcome until the slot is reused
  invoked,     \* number of calls issued so far
  ghost,       \* history of the run, read by the properties only:
               \*   wins[i]    loads that took item i since an endMission last
               \*              released it and returned success
               \*   okCount[m] calls on mover m that returned success
               \*   loaded[m]  weights committed on m since its last endMission
               \*   delivered  per resting record, the items cleared by its call
  thrown,      \* the error passed to the error handler, not yet answered
  sent         \* the error responses sent so far, each with its error

vars == <<movers, assignedTo, logs, calls, invoked, ghost, thrown, sent>>

\* ---------------------------------------------------------------- helpers
Range(s) == {s[k] : k \in 1..Len(s)}

\* no error is waiting for the error handler
NoError == [cls |-> "none", message |-> "none", errors |-> <<>>]

RECURSIVE SumWeight(_)
SumWeight(S) ==
  IF S = {} THEN 0
  ELSE LET i == CHOOSE x \in S : TRUE IN weight[i] + SumWeight(S \ {i})

\* availableItems.reduce((sum, item) => sum + item.weight, 0)
RECURSIVE ReduceWeight(_)
ReduceWeight(s) ==
  IF s = <<>> THEN 0 ELSE weight[Head(s)] + ReduceWeight(Tail(s))

\* faulty variant: the de-duplicated length is compared with itself
HasDuplicates_SelfCompare(s) == Cardinality(Range(s)) # Cardinality(Range(s))

\* [...new Set(itemIds)].length !== itemIds.length
HasDuplicates(s) == Cardinality(Range(s)) # Len(s)

\* $addToSet: { items: { $each: itemIds } }
RECURSIVE AddToSet(_, _)
AddToSet(arr, ids) ==
  IF ids = <<>> THEN arr
  ELSE IF Head(ids) \in Range(arr) THEN AddToSet(arr, Tail(ids))
  ELSE AddToSet(Append(arr, Head(ids)), Tail(ids))

\* MagicItem.find({ _id: { $in: ids } })
findByIds(ids) == {i \in Range(ids) \cap Items : assignedTo[i] # Deleted}

\* faulty variant: the query lacks the assignedTo filter
findAvailableByIds_AnyHolder(ids) == Range(ids) \cap Items

\* MagicItem.find({ _id: { $in: ids }, assignedTo: null })
findAvailableByIds(ids) == {i \in Range(ids) \cap Items : assignedTo[i] = NULL}

\* ids in request order restricted to a set of found documents
RECURSIVE SelectIn(_, _)
SelectIn(s, S) ==
  IF s = <<>> THEN <<>>
  ELSE IF Head(s) \in S THEN <<Head(s)>> \o SelectIn(Tail(s), S)
  ELSE SelectIn(Tail(s), S)

\* claimed: the items the call's own assignToMover modified; took: the same,
\* less what an endMission released since; held: the mover's items just
\* before the call's endMission update
IdleCall ==
  [op |-> "none", moverId |-> NoMover, itemIds |-> <<>>,
   pc |-> "idle", res |-> "none", msg |-> "none", newWeight |-> 0,
   snapshot |-> <<>>, claimed |-> {}, took |-> {}, held |-> <<>>]

\* the call has returned: its locals are gone
Return(call, kind, reason) ==
  [call EXCEPT !.pc = "done", !.res = kind, !.msg = reason,
                   !.newWeight = 0, !.snapshot = <<>>, !.claimed = {},
                   !.took = {}, !.held = <<>>]

Running(c) == calls[c].pc \notin {"idle", "done"}

\* ------------------------------------------------------------------- Init
\* currentWeight of a new MagicMover document
DefaultCurrentWeight == 0

\* faulty variant: the questState default is the loading state
NewMover_Loading ==
  [questState |-> LOADING, currentWeight |-> DefaultCurrentWeight,
   items |-> <<>>, missionsCompleted |-> 0]

\* the schema defaults of a MagicMover document
NewMover ==
  [questState |-> RESTING, currentWeight |-> DefaultCurrentWeight,
   items |-> <<>>, missionsCompleted |-> 0]

\* the schema default of MagicItem.assignedTo
NewItemHolder == NULL

Init ==
  /\ movers = [m \in Movers |-> NewMover]
  /\ assignedTo = [i \in Items |-> NewItemHolder]
  /\ logs = <<>>
  /\ calls = [c \in Slots |-> IdleCall]
  /\ invoked = 0
  /\ ghost = [wins |-> [i \in Items |-> 0],
              okCount |-> [m \in Movers |-> 0],
              loaded |-> [m \in Movers |-> <<>>],
              delivered |-> <<>>]
  /\ thrown = NoError
  /\ sent = <<>>

\* a request arrives at the service and takes the first free slot; the call
\* starts with its first store access
Arrives(c) ==
  /\ ~Running(c)
  /\ \A d \in Slots : d < c => Running(d)
  /\ invoked < MaxCalls

Invoke(o, m, r) ==
  [IdleCall EXCEPT !.op = o, !.moverId = m, !.itemIds = r]

\* ------------------------------------------------- MoverService.loadItems
\* findById, then the state check and the duplicate check
LoadFindMover(c) ==
  /\ Arrives(c)
  /\ invoked' = invoked + 1
  /\ \E m \in Movers \cup {NoMover} : \E r \in Requests :
       LET call == Invoke("load", m, r) IN
       calls' = [calls EXCEPT ![c] =
         IF m \notin Movers THEN Return(call, "NotFound", "Magic Mover not found")
         ELSE IF movers[m].questState = ON_MISSION
           THEN Return(call, "BadRequest", "Cannot load items while on a mission")
         ELSE IF HasDuplicates(r)
           THEN Return(call, "UnprocessableEntity", "Cannot load duplicate items in the same request")
         ELSE [call EXCEPT !.pc = "findAvailable"]]
  /\ UNCHANGED <<movers, assignedTo, logs, ghost, thrown, sent>>

\* findAvailableByIds and the length comparison
LoadFindAvailable(c) ==
  /\ calls[c].op = "load" /\ calls[c].pc = "findAvailable"
  /\ LET ids == calls[c].itemIds
         availableItems == SelectIn(ids, findAvailableByIds(ids)) IN
       calls' = [calls EXCEPT ![c] =
         IF Len(availableItems) # Len(ids)
           THEN [calls[c] EXCEPT !.pc = "findByIds"]
           ELSE [calls[c] EXCEPT !.pc = "assign",
                                 !.newWeight = ReduceWeight(availableItems)]]
  /\ UNCHANGED <<movers, assignedTo, logs, invoked, ghost, thrown, sent>>

\* faulty variant: an assigned item is reported before a missing one
LoadFindByIds_ConflictFirst(c) ==
  /\ calls[c].op = "load" /\ calls[c].pc = "findByIds"
  /\ LET ids == calls[c].itemIds IN
       calls' = [calls EXCEPT ![c] =
         IF findByIds(ids) # findAvailableByIds(ids)
           THEN Return(calls[c], "Conflict", "One or more items are already assigned to another mover")
           ELSE Return(calls[c], "NotFound", "One or more Magic Items not found")]
  /\ UNCHANGED <<movers, assignedTo, logs, invoked, ghost, thrown, sent>>

\* findByIds: tell a missing item from an assigned one
LoadFindByIds(c) ==
  /\ calls[c].op = "load" /\ calls[c].pc = "findByIds"
  /\ LET ids == calls[c].itemIds IN
       calls' = [calls EXCEPT ![c] =
         IF Cardinality(findByIds(ids)) # Len(ids)
           THEN Return(calls[c], "NotFound", "One or more Magic Items not found")
           ELSE Return(calls[c], "Conflict", "One or more items are already assigned to another mover")]
  /\ UNCHANGED <<movers, assignedTo, logs, invoked, ghost, thrown, sent>>

\* ItemRepository.assignToMover: updateMany on the unassigned ones
assignToMover(ids, m) ==
  [i \in Items |-> IF i \in findAvailableByIds(ids) THEN m ELSE assignedTo[i]]

LoadAssign(c) ==
  /\ calls[c].op = "load" /\ calls[c].pc = "assign"
  /\ LET ids == calls[c].itemIds
         modified == findAvailableByIds(ids) IN
       /\ assignedTo' = assignToMover(ids, calls[c].moverId)
       /\ calls' = [calls EXCEPT ![c] =
            [calls[c] EXCEPT
               !.pc = IF Cardinality(modified) # Len(ids)
                        THEN "rollbackConflict" ELSE "commit",
               !.claimed = modified, !.took = modified]]
  /\ UNCHANGED <<movers, logs, invoked, ghost, thrown, sent>>

\* faulty variant: the filter of assignToMover copied into the release
unassignItems_CopiedFilter(ids) ==
  [i \in Items |-> IF i \in findAvailableByIds(ids) THEN NULL ELSE assignedTo[i]]

\* ItemRepository.unassignItems: updateMany on every id of the list
unassignItems(ids) ==
  [i \in Items |-> IF i \in findByIds(ids) THEN NULL ELSE assignedTo[i]]

\* faulty variant: after the release the call goes back to the availability read
LoadRollbackConflict_Retries(c) ==
  /\ calls[c].op = "load" /\ calls[c].pc = "rollbackConflict"
  /\ assignedTo' = unassignItems(calls[c].itemIds)
  /\ calls' = [calls EXCEPT ![c] =
       [calls[c] EXCEPT !.pc = "findAvailable", !.claimed = {}, !.took = {}]]
  /\ UNCHANGED <<movers, logs, invoked, ghost, thrown, sent>>

LoadRollbackConflict(c) ==
  /\ calls[c].op = "load" /\ calls[c].pc = "rollbackConflict"
  /\ assignedTo' = unassignItems(calls[c].itemIds)
  /\ calls' = [calls EXCEPT ![c] =
       Return(calls[c], "Conflict", "Failed to assign items")]
  /\ UNCHANGED <<movers, logs, invoked, ghost, thrown, sent>>

\* faulty variant: the guard compares only the added weight with the limit
WithinLimit_AddedOnly(m, totalWeight, limit) ==
  totalWeight <= limit

\* faulty variant: the guard uses $lt, a load reaching the limit is refused
WithinLimit_Strict(m, totalWeight, limit) ==
  movers[m].currentWeight + totalWeight < limit

\* the $expr guard of MoverRepository.loadItems
WithinLimit(m, totalWeight, limit) ==
  movers[m].currentWeight + totalWeight <= limit

\* MoverRepository.loadItems: the guarded findOneAndUpdate
LoadedMover(m, ids, totalWeight) ==
  [movers[m] EXCEPT !.items = AddToSet(@, ids),
                    !.currentWeight = @ + totalWeight,
                    !.questState = LOADING]

LoadCommit(c) ==
  /\ calls[c].op = "load" /\ calls[c].pc = "commit"
  /\ LET m == calls[c].moverId IN
       IF WithinLimit(m, calls[c].newWeight, weightLimit[m])
         THEN /\ movers' = [movers EXCEPT ![m] =
                   LoadedMover(m, calls[c].itemIds, calls[c].newWeight)]
              /\ calls' = [calls EXCEPT ![c] = [calls[c] EXCEPT !.pc = "log"]]
              /\ ghost' = [ghost EXCEPT !.loaded[m] = Append(@, calls[c].newWeight)]
         ELSE /\ movers' = movers
              /\ calls' = [calls EXCEPT ![c] =
                   [calls[c] EXCEPT !.pc = "rollbackWeight"]]
              /\ ghost' = ghost
  /\ UNCHANGED <<assignedTo, logs, invoked, thrown, sent>>

LoadRollbackWeight(c) ==
  /\ calls[c].op = "load" /\ calls[c].pc = "rollbackWeight"
  /\ assignedTo' = unassignItems(calls[c].itemIds)
  /\ calls' = [calls EXCEPT ![c] =
       Return(calls[c], "BadRequest", "exceeds weight limit")]
  /\ UNCHANGED <<movers, logs, invoked, ghost, thrown, sent>>

\* the items of a mover read with findById: populate("items") leaves out
\* the ids that match no document; mover.items.map(item => item._id.toString())
ItemIdsOf(m) == SelectIn(movers[m].items, findByIds(movers[m].items))

\* faulty variant: a record is written only when items are involved
LogCreate_SkipEmpty(moverId, action, items) ==
  IF items = <<>> THEN logs
  ELSE Append(logs, [moverId |-> moverId, action |-> action, items |-> items])

\* faulty variant: the record of the mover is replaced when one exists
LogCreate_Upsert(moverId, action, items) ==
  LET rec == [moverId |-> moverId, action |-> action, items |-> items] IN
    IF \E k \in DOMAIN logs : logs[k].moverId = moverId
      THEN [k \in DOMAIN logs |-> IF logs[k].moverId = moverId THEN rec ELSE logs[k]]
      ELSE Append(logs, rec)

\* LogRepository.create
LogCreate(moverId, action, items) ==
  Append(logs, [moverId |-> moverId, action |-> action, items |-> items])

\* faulty variant: the record lists everything the mover holds
LoadLog_AllHeld(c) ==
  /\ calls[c].op = "load" /\ calls[c].pc = "log"
  /\ logs' = LogCreate(calls[c].moverId, LOADING, ItemIdsOf(calls[c].moverId))
  /\ calls' = [calls EXCEPT ![c] = Return(calls[c], "OK", "none")]
  /\ ghost' = [ghost EXCEPT
       !.okCount[calls[c].moverId] = @ + 1,
       !.wins = [i \in Items |->
          IF i \in calls[c].took THEN @[i] + 1 ELSE @[i]]]
  /\ UNCHANGED <<movers, assignedTo, invoked, thrown, sent>>

\* logRepository.create(moverId, QuestState.LOADING, itemIds)
LoadLog(c) ==
  /\ calls[c].op = "load" /\ calls[c].pc = "log"
  /\ logs' = LogCreate(calls[c].moverId, LOADING, calls[c].itemIds)
  /\ calls' = [calls EXCEPT ![c] = Return(calls[c], "OK", "none")]
  /\ ghost' = [ghost EXCEPT
       !.okCount[calls[c].moverId] = @ + 1,
       !.wins = [i \in Items |->
          IF i \in calls[c].took THEN @[i] + 1 ELSE @[i]]]
  /\ UNCHANGED <<movers, assignedTo, invoked, thrown, sent>>

\* ----------------------------------------------- MoverService.startMission
\* faulty variant: only a resting mover is refused
StartFindMover_RestingOnly(c) ==
  /\ Arrives(c)
  /\ invoked' = invoked + 1
  /\ \E m \in Movers \cup {NoMover} :
       LET call == Invoke("start", m, <<>>) IN
       calls' = [calls EXCEPT ![c] =
         IF m \notin Movers THEN Return(call, "NotFound", "Magic Mover not found")
         ELSE IF movers[m].questState = RESTING
           THEN Return(call, "BadRequest", "Cannot start a mission from resting state")
         ELSE IF Len(ItemIdsOf(m)) = 0
           THEN Return(call, "BadRequest", "Cannot start a mission without items")
         ELSE [call EXCEPT !.pc = "update", !.snapshot = ItemIdsOf(m)]]
  /\ UNCHANGED <<movers, assignedTo, logs, ghost, thrown, sent>>

\* findById and the three state checks
StartFindMover(c) ==
  /\ Arrives(c)
  /\ invoked' = invoked + 1
  /\ \E m \in Movers \cup {NoMover} :
       LET call == Invoke("start", m, <<>>) IN
       calls' = [calls EXCEPT ![c] =
         IF m \notin Movers THEN Return(call, "NotFound", "Magic Mover not found")
         ELSE IF movers[m].questState = ON_MISSION
           THEN Return(call, "BadRequest", "Mover is already on a mission")
         ELSE IF movers[m].questState # LOADING
           THEN Return(call, "BadRequest", "Cannot start a mission from resting state")
         ELSE IF Len(ItemIdsOf(m)) = 0
           THEN Return(call, "BadRequest", "Cannot start a mission without items")
         ELSE [call EXCEPT !.pc = "update", !.snapshot = ItemIdsOf(m)]]
  /\ UNCHANGED <<movers, assignedTo, logs, ghost, thrown, sent>>

\* faulty variant: the update also resets the weight
StartedMover_ResetsWeight(m) ==
  [movers[m] EXCEPT !.questState = ON_MISSION, !.currentWeight = 0]

\* MoverRepository.startMission: findByIdAndUpdate, no filter on the state
StartedMover(m) == [movers[m] EXCEPT !.questState = ON_MISSION]

StartUpdate(c) ==
  /\ calls[c].op = "start" /\ calls[c].pc = "update"
  /\ movers' = [movers EXCEPT ![calls[c].moverId] = StartedMover(calls[c].moverId)]
  /\ calls' = [calls EXCEPT ![c] = [calls[c] EXCEPT !.pc = "log"]]
  /\ UNCHANGED <<assignedTo, logs, invoked, ghost, thrown, sent>>

StartLog(c) ==
  /\ calls[c].op = "start" /\ calls[c].pc = "log"
  /\ logs' = LogCreate(calls[c].moverId, ON_MISSION, calls[c].snapshot)
  /\ calls' = [calls EXCEPT ![c] = Return(calls[c], "OK", "none")]
  /\ ghost' = [ghost EXCEPT !.okCount[calls[c].moverId] = @ + 1]
  /\ UNCHANGED <<movers, assignedTo, invoked, thrown, sent>>

\* ------------------------------------------------- MoverService.endMission
\* faulty variant: only a resting mover is refused
EndFindMover_RestingOnly(c) ==
  /\ Arrives(c)
  /\ invoked' = invoked + 1
  /\ \E m \in Movers \cup {NoMover} :
       LET call == Invoke("end", m, <<>>) IN
       calls' = [calls EXCEPT ![c] =
         IF m \notin Movers THEN Return(call, "NotFound", "Magic Mover not found")
         ELSE IF movers[m].questState = RESTING
           THEN Return(call, "BadRequest", "Mover is not currently on a mission")
         ELSE IF Len(ItemIdsOf(m)) > 0
           THEN [call EXCEPT !.pc = "findByIds", !.snapshot = ItemIdsOf(m)]
         ELSE [call EXCEPT !.pc = "unassign"]]
  /\ UNCHANGED <<movers, assignedTo, logs, ghost, thrown, sent>>

\* findById and the state check
EndFindMover(c) ==
  /\ Arrives(c)
  /\ invoked' = invoked + 1
  /\ \E m \in Movers \cup {NoMover} :
       LET call == Invoke("end", m, <<>>) IN
       calls' = [calls EXCEPT ![c] =
         IF m \notin Movers THEN Return(call, "NotFound", "Magic Mover not found")
         ELSE IF movers[m].questState # ON_MISSION
           THEN Return(call, "BadRequest", "Mover is not currently on a mission")
         ELSE IF Len(ItemIdsOf(m)) > 0
           THEN [call EXCEPT !.pc = "findByIds", !.snapshot = ItemIdsOf(m)]
         ELSE [call EXCEPT !.pc = "unassign"]]
  /\ UNCHANGED <<movers, assignedTo, logs, ghost, thrown, sent>>

\* the check that every loaded item still exists
EndFindByIds(c) ==
  /\ calls[c].op = "end" /\ calls[c].pc = "findByIds"
  /\ LET itemIds == calls[c].snapshot IN
       calls' = [calls EXCEPT ![c] =
         IF Cardinality(findByIds(itemIds)) # Len(itemIds)
           THEN Return(calls[c], "InternalServerError", "One or more items no longer exist")
           ELSE [calls[c] EXCEPT !.pc = "unassign", !.snapshot = <<>>]]
  /\ UNCHANGED <<movers, assignedTo, logs, invoked, ghost, thrown, sent>>

\* ItemRepository.unassignFromMover: updateMany on { assignedTo: moverId }
\* faulty variant: the update has no filter on assignedTo
unassignFromMover_EveryItem(m) ==
  [i \in Items |-> IF assignedTo[i] # Deleted THEN NULL ELSE assignedTo[i]]

unassignFromMover(m) ==
  [i \in Items |-> IF assignedTo[i] = m THEN NULL ELSE assignedTo[i]]

EndUnassign(c) ==
  /\ calls[c].op = "end" /\ calls[c].pc = "unassign"
  /\ assignedTo' = unassignFromMover(calls[c].moverId)
  /\ LET released == {i \in Items : assignedTo[i] = calls[c].moverId} IN
       /\ ghost' = [ghost EXCEPT
            !.wins = [i \in Items |-> IF i \in released THEN 0 ELSE @[i]]]
       /\ calls' = [d \in Slots |->
            IF d = c THEN [calls[c] EXCEPT !.pc = "update"]
            ELSE [calls[d] EXCEPT !.took = @ \ released]]
  /\ UNCHANGED <<movers, logs, invoked, thrown, sent>>

\* faulty variant: the update leaves currentWeight as it was
EndedMover_KeepWeight(m) ==
  [movers[m] EXCEPT !.items = <<>>, !.questState = RESTING,
                    !.missionsCompleted = @ + 1]

\* MoverRepository.endMission: findByIdAndUpdate, no filter on the state
EndedMover(m) ==
  [movers[m] EXCEPT !.items = <<>>, !.questState = RESTING,
                    !.currentWeight = 0, !.missionsCompleted = @ + 1]

EndUpdate(c) ==
  /\ calls[c].op = "end" /\ calls[c].pc = "update"
  /\ movers' = [movers EXCEPT ![calls[c].moverId] = EndedMover(calls[c].moverId)]
  /\ calls' = [calls EXCEPT ![c] =
       [calls[c] EXCEPT !.pc = "log", !.held = movers[calls[c].moverId].items]]
  /\ ghost' = [ghost EXCEPT !.loaded[calls[c].moverId] = <<>>]
  /\ UNCHANGED <<assignedTo, logs, invoked, thrown, sent>>

\* logRepository.create(moverId, QuestState.RESTING): items defaults to []
EndLog(c) ==
  /\ calls[c].op = "end" /\ calls[c].pc = "log"
  /\ logs' = LogCreate(calls[c].moverId, RESTING, <<>>)
  /\ calls' = [calls EXCEPT ![c] = Return(calls[c], "OK", "none")]
  /\ ghost' = [ghost EXCEPT
       !.okCount[calls[c].moverId] = @ + 1,
       !.delivered = Append(@, [logIdx |-> Len(logs) + 1, held |-> calls[c].held])]
  /\ UNCHANGED <<movers, assignedTo, invoked, thrown, sent>>

Next ==
  \E c \in Slots :
    \/ LoadFindMover(c)
    \/ LoadFindAvailable(c)
    \/ LoadFindByIds(c)
    \/ LoadAssign(c)
    \/ LoadRollbackConflict(c)
    \/ LoadCommit(c)
    \/ LoadRollbackWeight(c)
    \/ LoadLog(c)
    \/ StartFindMover(c)
    \/ StartUpdate(c)
    \/ StartLog(c)
    \/ EndFindMover(c)
    \/ EndFindByIds(c)
    \/ EndUnassign(c)
    \/ EndUpdate(c)
    \/ EndLog(c)

Spec == Init /\ [][Next]_vars

\* ------------------------------------------------------------- scheduling
\* the next store access of the call in slot c: the awaited promise settles
\* and the event loop runs the continuation
Continue(c) ==
  \/ LoadFindAvailable(c)
  \/ LoadFindByIds(c)
  \/ LoadAssign(c)
  \/ LoadRollbackConflict(c)
  \/ LoadCommit(c)
  \/ LoadRollbackWeight(c)
  \/ LoadLog(c)
  \/ StartUpdate(c)
  \/ StartLog(c)
  \/ EndFindByIds(c)
  \/ EndUnassign(c)
  \/ EndUpdate(c)
  \/ EndLog(c)

\* the requests of a run in which every call is seen through to its return
FairLoad(c) == invoked < MaxFairCalls /\ LoadFindMover(c)
FairStart(c) == invoked < MaxFairCalls /\ StartFindMover(c)
FairEnd(c) == invoked < MaxFairCalls /\ EndFindMover(c)

\* a MagicItem document is removed from the collection by something other
\* than the engine, which has no operation for it
DeleteItem ==
  /\ \E i \in Items :
       /\ assignedTo[i] # Deleted
       /\ assignedTo' = [assignedTo EXCEPT ![i] = Deleted]
  /\ UNCHANGED <<movers, logs, calls, invoked, ghost, thrown, sent>>

NextIntegrity ==
  \/ \E c \in Slots :
       \/ FairLoad(c)
       \/ FairStart(c)
       \/ FairEnd(c)
       \/ Continue(c)
  \/ DeleteItem

\* the engine over a collection that can lose item documents
SpecIntegrity == Init /\ [][NextIntegrity]_vars

NextFair ==
  \E c \in Slots :
    \/ FairLoad(c)
    \/ FairStart(c)
    \/ FairEnd(c)
    \/ Continue(c)

\* every call in progress gets its next store access answered
FairSpec == Init /\ [][NextFair]_vars /\ \A c \in Slots : WF_vars(Continue(c))

\* ------------------------------------------------- creation of documents
\* request bodies of POST /api/magic-movers and POST /api/magic-items that
\* pass the validators
WeightLimits == {1, 2, 3}
Weights == {1, 2}

\* empty collections; movers and assignedTo hold the documents in creation
\* order
InitCreate ==
  /\ movers = <<>>
  /\ assignedTo = <<>>
  /\ logs = <<>>
  /\ calls = [c \in Slots |-> IdleCall]
  /\ invoked = 0
  /\ ghost = <<>>
  /\ thrown = NoError
  /\ sent = <<>>

\* MoverRepository.create: MagicMover.create({ name, weightLimit })
CreateMover ==
  /\ Len(movers) < MaxDocs
  /\ \E w \in WeightLimits :
       movers' = Append(movers, [weightLimit |-> w] @@ NewMover)
  /\ UNCHANGED <<assignedTo, logs, calls, invoked, ghost, thrown, sent>>

\* ItemRepository.create: MagicItem.create({ name, weight })
CreateItem ==
  /\ Len(assignedTo) < MaxDocs
  /\ \E w \in Weights :
       assignedTo' = Append(assignedTo, [weight |-> w, assignedTo |-> NewItemHolder])
  /\ UNCHANGED <<movers, logs, calls, invoked, ghost, thrown, sent>>

NextCreate == CreateMover \/ CreateItem

SpecCreate == InitCreate /\ [][NextCreate]_vars

\* ---------------------------------------------------------------- queries
\* the records of the log as documents; createdAt is the creation instant,
\* later for a record created later
LogDocs ==
  [k \in DOMAIN logs |->
     [createdAt |-> k, moverId |-> logs[k].moverId, action |-> logs[k].action,
      items |-> logs[k].items]]

\* .sort({ createdAt: sortOrder }) on a set of positions of the log
RECURSIVE SortByCreatedAt(_, _)
SortByCreatedAt(S, sortOrder) ==
  IF S = {} THEN <<>>
  ELSE LET first == IF sortOrder = 1
                      THEN CHOOSE k \in S : \A l \in S : LogDocs[k].createdAt <= LogDocs[l].createdAt
                      ELSE CHOOSE k \in S : \A l \in S : LogDocs[k].createdAt >= LogDocs[l].createdAt
       IN <<LogDocs[first]>> \o SortByCreatedAt(S \ {first}, sortOrder)

\* faulty variant: the two sort directions are swapped
findByMoverId_Swapped(moverId, filterSortOrder) ==
  LET sortOrder == IF filterSortOrder = "asc" THEN -1 ELSE 1 IN
    SortByCreatedAt({k \in DOMAIN logs : logs[k].moverId = moverId}, sortOrder)

\* LogRepository.findByMoverId with filters.sortOrder ("none": not given)
findByMoverId(moverId, filterSortOrder) ==
  LET sortOrder == IF filterSortOrder = "asc" THEN 1 ELSE -1 IN
    SortByCreatedAt({k \in DOMAIN logs : logs[k].moverId = moverId}, sortOrder)

SortOrders == {"none", "asc", "desc"}

\* .sort({ missionsCompleted: direction }) on a set of movers; the order of
\* movers with equal counts is not fixed by the query, one is taken
RECURSIVE SortByMissions(_, _)
SortByMissions(S, direction) ==
  IF S = {} THEN <<>>
  ELSE LET first == IF direction = 1
                      THEN CHOOSE m \in S : \A n \in S : movers[m].missionsCompleted <= movers[n].missionsCompleted
                      ELSE CHOOSE m \in S : \A n \in S : movers[m].missionsCompleted >= movers[n].missionsCompleted
       IN <<[id |-> first, missionsCompleted |-> movers[first].missionsCompleted]>>
            \o SortByMissions(S \ {first}, direction)

\* stands for a parameter that is undefined
NoParam == -1

\* faulty variant: the sort is ascending
findTopMovers_Ascending(limit, minMissions) ==
  LET query == {m \in Movers : minMissions = NoParam
                                \/ movers[m].missionsCompleted >= minMissions}
      sorted == SortByMissions(query, 1) IN
    IF limit = NoParam \/ limit >= Len(sorted) THEN sorted
    ELSE SubSeq(sorted, 1, limit)

\* MoverRepository.findTopMovers
findTopMovers(limit, minMissions) ==
  LET query == {m \in Movers : minMissions = NoParam
                                \/ movers[m].missionsCompleted >= minMissions}
      sorted == SortByMissions(query, -1) IN
    IF limit = NoParam \/ limit >= Len(sorted) THEN sorted
    ELSE SubSeq(sorted, 1, limit)

Limits == {NoParam, 1}
MinMissions == {NoParam, 1}

\* ------------------------------------------------------- error responses
\* StatusCodes of http-status-codes
NOT_FOUND == 404
BAD_REQUEST == 400
CONFLICT == 409
UNPROCESSABLE_ENTITY == 422
INTERNAL_SERVER_ERROR == 500

\* the subclasses of AppError
AppErrorClasses ==
  { "NotFoundError", "BadRequestError", "ConflictError",
    "UnprocessableEntityError", "InternalServerError", "ValidationError" }

\* faulty variant: UnprocessableEntityError declares BAD_REQUEST
statusCode_UnprocessableAsBadRequest(cls) ==
  CASE cls = "NotFoundError" -> NOT_FOUND
    [] cls = "BadRequestError" -> BAD_REQUEST
    [] cls = "ConflictError" -> CONFLICT
    [] cls = "UnprocessableEntityError" -> BAD_REQUEST
    [] cls = "InternalServerError" -> INTERNAL_SERVER_ERROR
    [] cls = "ValidationError" -> BAD_REQUEST

\* readonly statusCode of each class
statusCode(cls) ==
  CASE cls = "NotFoundError" -> NOT_FOUND
    [] cls = "BadRequestError" -> BAD_REQUEST
    [] cls = "ConflictError" -> CONFLICT
    [] cls = "UnprocessableEntityError" -> UNPROCESSABLE_ENTITY
    [] cls = "InternalServerError" -> INTERNAL_SERVER_ERROR
    [] cls = "ValidationError" -> BAD_REQUEST

\* readonly isOperational of each class
isOperational(cls) == cls # "InternalServerError"

\* err.errors.map((e) => e.msg).join("; ")
RECURSIVE Join(_)
Join(msgs) ==
  IF msgs = <<>> THEN ""
  ELSE IF Len(msgs) = 1 THEN msgs[1]
  ELSE msgs[1] \o "; " \o Join(Tail(msgs))

\* faulty variant: the non-operational branch answers with err.message
errorHandler_ExposesMessage(err) ==
  IF err.cls \in AppErrorClasses
    THEN IF isOperational(err.cls)
           THEN IF err.cls = "ValidationError" /\ Len(err.errors) > 0
                  THEN [status |-> statusCode(err.cls),
                        message |-> IF Join(err.errors) # "" THEN Join(err.errors)
                                    ELSE err.message]
                  ELSE [status |-> statusCode(err.cls), message |-> err.message]
           ELSE [status |-> statusCode(err.cls), message |-> err.message]
    ELSE [status |-> INTERNAL_SERVER_ERROR, message |-> "Internal Server Error"]

\* the status and the message of the JSON body errorHandler answers with
errorHandler(err) ==
  IF err.cls \in AppErrorClasses
    THEN IF isOperational(err.cls)
           THEN IF err.cls = "ValidationError" /\ Len(err.errors) > 0
                  THEN [status |-> statusCode(err.cls),
                        message |-> IF Join(err.errors) # "" THEN Join(err.errors)
                                    ELSE err.message]
                  ELSE [status |-> statusCode(err.cls), message |-> err.message]
           ELSE [status |-> statusCode(err.cls),
                 message |-> "An unexpected error occurred. Please try again later."]
    ELSE [status |-> INTERNAL_SERVER_ERROR, message |-> "Internal Server Error"]

\* reason texts of errors the handlers throw
Messages ==
  { "Magic Mover not found",
    "Failed to assign items (they may have been taken by another mover)",
    "One or more items no longer exist. Cannot complete mission.",
    "Database connection failed" }

\* the errors array of a ValidationError thrown by validate
ValidationErrors ==
  { <<"Invalid mover ID format">>,
    <<"Invalid mover ID format", "itemIds must be a non-empty array">> }

\* the errors that reach the handler: AppError instances, ValidationErrors
\* with and without details, and errors that are no AppError
Thrown ==
  {[cls |-> c, message |-> t, errors |-> <<>>] :
      c \in (AppErrorClasses \cup {"Error"}) \ {"ValidationError"},
      t \in Messages}
  \cup {[cls |-> "ValidationError", message |-> "Validation failed", errors |-> e] :
          e \in ValidationErrors \cup {<<>>}}

InitErrors ==
  /\ movers = <<>>
  /\ assignedTo = <<>>
  /\ logs = <<>>
  /\ calls = [c \in Slots |-> IdleCall]
  /\ invoked = 0
  /\ ghost = <<>>
  /\ thrown = NoError
  /\ sent = <<>>

\* a route handler or middleware throws
Throw ==
  /\ thrown = NoError
  /\ Len(sent) < MaxErrors
  /\ \E e \in Thrown : thrown' = e
  /\ UNCHANGED <<movers, assignedTo, logs, calls, invoked, ghost, sent>>

\* app.use(errorHandler): the response to the thrown error
ErrorResponse ==
  /\ thrown # NoError
  /\ sent' = Append(sent, [err |-> thrown, res |-> errorHandler(thrown)])
  /\ thrown' = NoError
  /\ UNCHANGED <<movers, assignedTo, logs, calls, invoked, ghost>>

NextErrors == Throw \/ ErrorResponse

SpecErrors == InitErrors /\ [][NextErrors]_vars

\* ------------------------------------------------------------- properties
Done(c) == calls[c].pc = "done"
Quiescent == \A c \in Slots : ~Running(c)
RecordsOf(m) == {k \in DOMAIN logs : logs[k].moverId = m}
OverLimit(c) == Done(c) /\ calls[c].op = "load" /\ calls[c].msg = "exceeds weight limit"

\* C1: of the load calls that took an item since an endMission last released
\* it, at most one returns success.
C1_OneWinnerPerItem ==
  \A i \in Items : ghost.wins[i] <= 1

\* C2: no item id is in the items of two different movers.
C2_NoDoubleHeld ==
  \A m \in Movers : \A n \in Movers \ {m} :
    Range(movers[m].items) \cap Range(movers[n].items) = {}

\* C3: every mover's currentWeight is at most its weightLimit.
C3_WithinCapacity ==
  \A m \in Movers : movers[m].currentWeight <= weightLimit[m]

\* a mover loaded to exactly its limit after a load on it was refused
C3_Witness ==
  \E m \in Movers :
    /\ movers[m].currentWeight = weightLimit[m]
    /\ \E c \in Slots : OverLimit(c) /\ calls[c].moverId = m

\* C4: every mover's currentWeight is the sum of the weights of its items.
C4_LoadIsSumOfHeld ==
  \A m \in Movers :
    movers[m].currentWeight = SumWeight(Range(movers[m].items))

\* C5: every committed write of a mover's questState follows one of the edges
\* resting->loading, loading->loading, loading->on-mission, on-mission->resting.
LegalEdges ==
  { <<RESTING, LOADING>>, <<LOADING, LOADING>>,
    <<LOADING, ON_MISSION>>, <<ON_MISSION, RESTING>> }

Commits(c) ==
  /\ calls[c].pc \in {"commit", "update"}
  /\ calls'[c].pc = "log"

C5_OnlyLegalEdges ==
  [][\A c \in Slots : Commits(c) =>
       <<movers[calls[c].moverId].questState,
         movers'[calls[c].moverId].questState>> \in LegalEdges]_vars

\* C6: a load whose guarded commit is refused changes no mover and no log,
\* returns BadRequest, and on return every item of its request is unassigned.
C6_RollbackComplete ==
  [][\A c \in Slots :
       /\ (calls[c].pc = "commit" /\ calls'[c].pc = "rollbackWeight")
            => (movers' = movers /\ logs' = logs /\ assignedTo' = assignedTo)
       /\ (calls[c].pc = "rollbackWeight" /\ calls'[c].pc = "done")
            => /\ calls'[c].res = "BadRequest"
               /\ \A i \in Range(calls[c].itemIds) : assignedTo'[i] = NULL
               /\ movers' = movers /\ logs' = logs]_vars

\* a refused load of two items has returned and both items are free again
C6_Witness ==
  \E c \in Slots :
    /\ OverLimit(c)
    /\ Len(calls[c].itemIds) = 2
    /\ \A i \in Range(calls[c].itemIds) : assignedTo[i] = NULL

\* C7: two loads committed on one mover since its last endMission never add up
\* to more than the limit; a commit that would exceed it is refused, and the
\* refused call returns BadRequest with its items unassigned.
C7_OneOfTwoFits ==
  /\ [](\A m \in Movers : \A k \in DOMAIN ghost.loaded[m] :
          \A l \in DOMAIN ghost.loaded[m] :
            k # l => ghost.loaded[m][k] + ghost.loaded[m][l] <= weightLimit[m])
  /\ [][\A c \in Slots :
          /\ ( /\ calls[c].pc = "commit"
               /\ calls'[c].pc # "commit"
               /\ \E k \in DOMAIN ghost.loaded[calls[c].moverId] :
                    ghost.loaded[calls[c].moverId][k] + calls[c].newWeight
                      > weightLimit[calls[c].moverId] )
               => calls'[c].pc = "rollbackWeight"
          /\ (calls[c].pc = "rollbackWeight" /\ calls'[c].pc # "rollbackWeight")
               => /\ calls'[c].res = "BadRequest"
                  /\ \A i \in Range(calls[c].itemIds) : assignedTo'[i] = NULL]_vars

\* two loads in flight on one mover, each fitting alone: the first has
\* committed, the second was refused and has returned with its items free
C7_Witness ==
  \E c \in Slots : \E d \in Slots \ {c} :
    /\ OverLimit(c)
    /\ calls[d].op = "load" /\ calls[d].pc = "log"
    /\ calls[d].moverId = calls[c].moverId
    /\ Range(calls[c].itemIds) \cap Range(calls[d].itemIds) = {}
    /\ ReduceWeight(calls[c].itemIds) <= weightLimit[calls[c].moverId]
    /\ ReduceWeight(calls[d].itemIds) <= weightLimit[calls[d].moverId]
    /\ ghost.loaded[calls[c].moverId] = <<ReduceWeight(calls[d].itemIds)>>
    /\ \A i \in Range(calls[c].itemIds) : assignedTo[i] = NULL

\* C8: a load that returns an error has changed no mover and no log, and its
\* last step leaves every item it did not claim itself with the same holder.
C8_NoResidue ==
  [][\A c \in Slots :
       ( /\ calls[c].op = "load"
         /\ Running(c)
         /\ calls'[c].pc = "done"
         /\ calls'[c].res # "OK" )
       => /\ \A i \in Items \ calls[c].claimed : assignedTo'[i] = assignedTo[i]
          /\ movers' = movers
          /\ logs' = logs]_vars

\* C9: the resting record of an endMission that delivered items lists exactly
\* the items the mover held when the mission was ended.
C9_RestingRecordHasDelivered ==
  \A k \in DOMAIN ghost.delivered :
    LET d == ghost.delivered[k] IN
      d.held # <<>> =>
        /\ logs[d.logIdx].action = RESTING
        /\ Range(logs[d.logIdx].items) = Range(d.held)

\* C10: for each mover, the number of its records equals the number of
\* load, startMission and endMission calls on it that returned success.
C10_OneRecordPerSuccess ==
  \A m \in Movers : Cardinality(RecordsOf(m)) = ghost.okCount[m]

\* no call in progress, a mover with two successful calls and a failed one
C10_Witness ==
  /\ Quiescent
  /\ \E m \in Movers :
       /\ ghost.okCount[m] >= 2
       /\ \E c \in Slots : Done(c) /\ calls[c].moverId = m /\ calls[c].res # "OK"

\* the step in which a call of operation o arrives in slot c and reads its mover
FirstStep(c, o) ==
  /\ Arrives(c)
  /\ invoked' = invoked + 1
  /\ calls'[c].op = o
  /\ calls'[c].moverId \in Movers

StoresUnchanged ==
  movers' = movers /\ assignedTo' = assignedTo /\ logs' = logs

\* C11: a startMission goes on to success exactly when the mover it reads is
\* loading with items; from resting and from on-mission it returns BadRequest
\* and writes nothing; a startMission that went on returns success.
C11_StartOnlyFromLoading ==
  [][\A c \in Slots :
       /\ FirstStep(c, "start") =>
            LET m == calls'[c].moverId IN
              /\ StoresUnchanged
              /\ Running(c)' <=> ( /\ movers[m].questState = LOADING
                                   /\ movers[m].items # <<>> )
              /\ movers[m].questState \in {RESTING, ON_MISSION}
                   => Done(c)' /\ calls'[c].res = "BadRequest"
       /\ (calls[c].op = "start" /\ Running(c) /\ Done(c)')
            => calls'[c].res = "OK"]_vars

\* one startMission has succeeded and another was refused with BadRequest
C11_Witness ==
  \E c \in Slots : \E d \in Slots \ {c} :
    /\ Done(c) /\ calls[c].op = "start" /\ calls[c].res = "OK"
    /\ Done(d) /\ calls[d].op = "start" /\ calls[d].res = "BadRequest"

\* C12: an endMission goes on to success exactly when the mover it reads is
\* on-mission; from resting and from loading it returns BadRequest and writes
\* nothing; an endMission that went on returns success.
C12_EndOnlyFromOnMission ==
  [][\A c \in Slots :
       /\ FirstStep(c, "end") =>
            LET m == calls'[c].moverId IN
              /\ StoresUnchanged
              /\ Running(c)' <=> movers[m].questState = ON_MISSION
              /\ movers[m].questState \in {RESTING, LOADING}
                   => Done(c)' /\ calls'[c].res = "BadRequest"
       /\ (calls[c].op = "end" /\ Running(c) /\ Done(c)')
            => calls'[c].res = "OK"]_vars

\* one endMission has succeeded and another was refused with BadRequest
C12_Witness ==
  \E c \in Slots : \E d \in Slots \ {c} :
    /\ Done(c) /\ calls[c].op = "end" /\ calls[c].res = "OK"
    /\ Done(d) /\ calls[d].op = "end" /\ calls[d].res = "BadRequest"

\* C13: while a mover is on-mission its items and currentWeight do not change
\* until an endMission update clears them.
C13_FrozenOnMission ==
  [][\A m \in Movers :
       movers[m].questState = ON_MISSION =>
         \/ /\ movers'[m].items = movers[m].items
            /\ movers'[m].currentWeight = movers[m].currentWeight
         \/ /\ movers'[m].questState = RESTING
            /\ movers'[m].items = <<>>]_vars

\* C14: when an endMission clears a mover's items, none of them is left
\* assigned to that mover, so each is free to be loaded by another mover.
C14_ReleasedAfterEnd ==
  [][\A c \in Slots :
       (calls[c].op = "end" /\ calls[c].pc = "update" /\ calls'[c].pc = "log")
         => \A i \in Range(movers[calls[c].moverId].items) :
              assignedTo'[i] # calls[c].moverId]_vars

\* C15: the update of a successful endMission leaves its mover resting, with
\* no items, currentWeight 0 and missionsCompleted one greater, and leaves every
\* other mover as it was.
C15_EndResetsMover ==
  [][\A c \in Slots :
       (calls[c].op = "end" /\ calls[c].pc = "update" /\ calls'[c].pc = "log")
         => LET m == calls[c].moverId IN
              /\ movers'[m].questState = RESTING
              /\ movers'[m].items = <<>>
              /\ movers'[m].currentWeight = 0
              /\ movers'[m].missionsCompleted = movers[m].missionsCompleted + 1
              /\ \A n \in Movers \ {m} : movers'[n] = movers[n]]_vars

\* an endMission has just cleared a mover that carried items
C15_Witness ==
  \E c \in Slots :
    /\ calls[c].op = "end" /\ calls[c].pc = "log"
    /\ calls[c].held # <<>>
    /\ movers[calls[c].moverId].questState = RESTING
    /\ movers[calls[c].moverId].missionsCompleted = 1

\* C16: the update of a successful load on a resting or loading mover leaves
\* it loading, with currentWeight raised by the summed weight of the request
\* and items extended by the requested ids, each of them assigned to the mover.
C16_LoadEffect ==
  [][\A c \in Slots :
       ( /\ calls[c].op = "load" /\ calls[c].pc = "commit" /\ calls'[c].pc = "log"
         /\ movers[calls[c].moverId].questState \in {RESTING, LOADING} )
         => LET m == calls[c].moverId
                ids == calls[c].itemIds IN
              /\ movers'[m].questState = LOADING
              /\ movers'[m].currentWeight =
                   movers[m].currentWeight + ReduceWeight(ids)
              /\ Range(movers'[m].items) = Range(movers[m].items) \cup Range(ids)
              /\ \A i \in Range(ids) : assignedTo'[i] = m]_vars

RepeatsAnId(s) == \E k \in DOMAIN s : \E l \in DOMAIN s : k # l /\ s[k] = s[l]

\* C17 as stated: every load whose itemIds repeats an id returns
\* UnprocessableEntity.
C17_DuplicatesAlwaysUnprocessable ==
  \A c \in Slots :
    (Done(c) /\ calls[c].op = "load" /\ RepeatsAnId(calls[c].itemIds))
      => calls[c].res = "UnprocessableEntity"

\* C17 amended: a load on an existing mover that is not on-mission whose
\* itemIds repeats an id returns UnprocessableEntity in the step that read the
\* mover, before any item or log access, and writes nothing.
C17_DuplicatesRefusedAfterMoverRead ==
  [][\A c \in Slots :
       ( /\ FirstStep(c, "load")
         /\ RepeatsAnId(calls'[c].itemIds)
         /\ movers[calls'[c].moverId].questState # ON_MISSION )
         => /\ Done(c)'
            /\ calls'[c].res = "UnprocessableEntity"
            /\ StoresUnchanged]_vars

\* a load with a repeated id was refused on a mover that already holds items
C17_Witness ==
  \E c \in Slots :
    /\ Done(c) /\ calls[c].op = "load" /\ RepeatsAnId(calls[c].itemIds)
    /\ calls[c].res = "UnprocessableEntity"
    /\ movers[calls[c].moverId].questState = LOADING

\* C18: a load that reached the availability read goes on to claim exactly
\* when every id exists and is unassigned; otherwise it returns NotFound if an
\* id matches no item and Conflict if not, and neither read writes anything.
C18_NotFoundBeforeConflict ==
  [][\A c \in Slots :
       LET ids == calls[c].itemIds IN
       /\ (calls[c].op = "load" /\ calls[c].pc = "findAvailable"
             /\ calls'[c].pc # "findAvailable")
            => /\ StoresUnchanged
               /\ calls'[c].pc = "findByIds" <=>
                    \E i \in Range(ids) : i \notin Items \/ assignedTo[i] # NULL
               /\ calls'[c].pc \in {"findByIds", "assign"}
       /\ (calls[c].op = "load" /\ calls[c].pc = "findByIds"
             /\ calls'[c].pc # "findByIds")
            => /\ StoresUnchanged
               /\ Done(c)'
               /\ calls'[c].res =
                    IF \E i \in Range(ids) : i \notin Items
                      THEN "NotFound" ELSE "Conflict"]_vars

\* one load was refused for a missing item, another for an assigned item
C18_Witness ==
  \E c \in Slots : \E d \in Slots \ {c} :
    /\ Done(c) /\ calls[c].op = "load" /\ calls[c].res = "NotFound"
    /\ calls[c].moverId \in Movers
    /\ Done(d) /\ calls[d].op = "load" /\ calls[d].res = "Conflict"
    /\ calls[d].msg = "One or more items are already assigned to another mover"

\* C19: a load whose assignToMover modified fewer items than requested returns
\* Conflict and its rollback changes the holder of the items it modified only.
C19_RollbackOwnClaimsOnly ==
  [][\A c \in Slots :
       (calls[c].op = "load" /\ calls[c].pc = "rollbackConflict"
          /\ calls'[c].pc # "rollbackConflict")
         => /\ calls'[c].res = "Conflict"
            /\ \A i \in Items :
                 assignedTo'[i] # assignedTo[i] => i \in calls[c].claimed]_vars

\* C20: a resting mover has no items and currentWeight 0.
C20_RestingIsEmpty ==
  \A m \in Movers :
    movers[m].questState = RESTING
      => movers[m].items = <<>> /\ movers[m].currentWeight = 0

\* a mover back at rest after a mission while a load that read it earlier is
\* about to run its update
C20_Witness ==
  \E m \in Movers :
    /\ movers[m].questState = RESTING
    /\ movers[m].missionsCompleted >= 1
    /\ \E c \in Slots :
         calls[c].op = "load" /\ calls[c].pc = "commit" /\ calls[c].moverId = m

\* C21: the step that ends a successful load appends one record with the
\* call's mover, action loading and exactly the item ids of the request, and
\* leaves the earlier records as they were.
C21_LoadRecordIsRequest ==
  [][\A c \in Slots :
       (calls[c].op = "load" /\ Running(c) /\ calls'[c].pc = "done"
          /\ calls'[c].res = "OK")
         => /\ Len(logs') = Len(logs) + 1
            /\ SubSeq(logs', 1, Len(logs)) = logs
            /\ logs'[Len(logs')].moverId = calls[c].moverId
            /\ logs'[Len(logs')].action = LOADING
            /\ logs'[Len(logs')].items = calls[c].itemIds]_vars

\* the last record is a loading record that lists fewer items than its mover
\* holds: the mover had items from an earlier load
C21_Witness ==
  /\ logs # <<>>
  /\ LET r == logs[Len(logs)] IN
       /\ r.action = LOADING
       /\ Len(r.items) = 1
       /\ Len(movers[r.moverId].items) = 2
       /\ Range(r.items) \subseteq Range(movers[r.moverId].items)

\* C22: the snapshot a startMission logs is the full item list of the mover at
\* the step that sets it on-mission, and its record has action on-mission and
\* that snapshot.
C22_StartRecordIsHeldAtUpdate ==
  [][\A c \in Slots :
       /\ (calls[c].op = "start" /\ calls[c].pc = "update" /\ calls'[c].pc = "log")
            => /\ movers'[calls[c].moverId].questState = ON_MISSION
               /\ calls[c].snapshot = movers[calls[c].moverId].items
       /\ (calls[c].op = "start" /\ calls[c].pc = "log" /\ calls'[c].pc = "done")
            => /\ Len(logs') = Len(logs) + 1
               /\ logs'[Len(logs')].action = ON_MISSION
               /\ logs'[Len(logs')].items = calls[c].snapshot]_vars

\* C23: the guarded update of a load succeeds exactly when currentWeight plus
\* the summed weight of the requested items is at most weightLimit; a refused
\* one returns BadRequest.
C23_InclusiveBound ==
  [][\A c \in Slots :
       /\ (calls[c].op = "load" /\ calls[c].pc = "commit" /\ calls'[c].pc # "commit")
            => LET m == calls[c].moverId IN
                 /\ calls'[c].pc = "log" <=>
                      movers[m].currentWeight + ReduceWeight(calls[c].itemIds)
                        <= weightLimit[m]
                 /\ calls'[c].pc \in {"log", "rollbackWeight"}
       /\ (calls[c].op = "load" /\ calls[c].pc = "rollbackWeight"
             /\ calls'[c].pc # "rollbackWeight")
            => calls'[c].res = "BadRequest"]_vars

\* a load of exactly the limit has been committed on one mover while a load
\* of the limit plus one was refused on the other
C23_Witness ==
  \E c \in Slots : \E d \in Slots \ {c} :
    /\ calls[c].op = "load" /\ calls[c].pc = "log"
    /\ ReduceWeight(calls[c].itemIds) = weightLimit[calls[c].moverId]
    /\ movers[calls[c].moverId].currentWeight = weightLimit[calls[c].moverId]
    /\ OverLimit(d)
    /\ ReduceWeight(calls[d].itemIds) = weightLimit[calls[d].moverId] + 1

\* C24: a created mover document is resting with currentWeight 0,
\* missionsCompleted 0 and no items, and a created item document has
\* assignedTo null; the documents created before are unchanged.
C24_CreatedWithDefaults ==
  [][/\ movers' # movers =>
          /\ Len(movers') = Len(movers) + 1
          /\ SubSeq(movers', 1, Len(movers)) = movers
          /\ movers'[Len(movers')].questState = RESTING
          /\ movers'[Len(movers')].currentWeight = 0
          /\ movers'[Len(movers')].missionsCompleted = 0
          /\ movers'[Len(movers')].items = <<>>
     /\ assignedTo' # assignedTo =>
          /\ Len(assignedTo') = Len(assignedTo) + 1
          /\ SubSeq(assignedTo', 1, Len(assignedTo)) = assignedTo
          /\ assignedTo'[Len(assignedTo')].assignedTo = NULL]_vars

\* two movers of different limits and two items of different weights exist
C24_Witness ==
  /\ Len(movers) >= 2 /\ movers[1].weightLimit # movers[2].weightLimit
  /\ Len(assignedTo) >= 2 /\ assignedTo[1].weight # assignedTo[2].weight

\* C25: every step keeps every existing record of the activity log in place
\* with the same mover, action and items.
C25_LogAppendOnly ==
  [][/\ Len(logs') >= Len(logs)
     /\ \A k \in DOMAIN logs :
          /\ logs'[k].moverId = logs[k].moverId
          /\ logs'[k].action = logs[k].action
          /\ logs'[k].items = logs[k].items]_vars

\* the loading record of a mission that has ended: the mover is resting with
\* no items, the recorded item is held by the other mover, and the record is
\* still the first of the log
C25_Witness ==
  /\ Len(logs) >= 3
  /\ logs[1].action = LOADING /\ logs[1].items # <<>>
  /\ movers[logs[1].moverId].questState = RESTING
  /\ movers[logs[1].moverId].items = <<>>
  /\ \E i \in Range(logs[1].items) :
       assignedTo[i] \notin {NULL, logs[1].moverId}

OperationalKinds ==
  {"NotFoundError", "BadRequestError", "ConflictError", "UnprocessableEntityError"}

\* C26: the response to a NotFound, BadRequest, Conflict or
\* UnprocessableEntity error carries the error's own message, and the
\* responses to two InternalServerErrors are equal whatever their messages
\* are and never carry the error's message.
C26_InternalIsGeneric ==
  /\ \A k \in DOMAIN sent :
       /\ sent[k].err.cls \in OperationalKinds
            => sent[k].res.message = sent[k].err.message
       /\ sent[k].err.cls = "InternalServerError"
            => sent[k].res.message # sent[k].err.message
  /\ \A k \in DOMAIN sent : \A l \in DOMAIN sent :
       (sent[k].err.cls = "InternalServerError" /\ sent[l].err.cls = "InternalServerError")
         => sent[k].res = sent[l].res

\* two InternalServerErrors with different messages have been answered
C26_Witness ==
  /\ Len(sent) = 2
  /\ sent[1].err.cls = "InternalServerError" /\ sent[2].err.cls = "InternalServerError"
  /\ sent[1].err.message # sent[2].err.message

\* C27: the status of a response is 404, 400, 409, 422, 500 for NotFound,
\* BadRequest, Conflict, UnprocessableEntity, Internal; two errors of the same
\* kind get the same status whatever their messages, and two errors of
\* different kinds among the five get different statuses.
FiveKinds == OperationalKinds \cup {"InternalServerError"}

C27_StatusFromKind ==
  /\ \A k \in DOMAIN sent :
       /\ sent[k].err.cls = "NotFoundError" => sent[k].res.status = 404
       /\ sent[k].err.cls = "BadRequestError" => sent[k].res.status = 400
       /\ sent[k].err.cls = "ConflictError" => sent[k].res.status = 409
       /\ sent[k].err.cls = "UnprocessableEntityError" => sent[k].res.status = 422
       /\ sent[k].err.cls = "InternalServerError" => sent[k].res.status = 500
  /\ \A k \in DOMAIN sent : \A l \in DOMAIN sent :
       (sent[k].err.cls \in FiveKinds /\ sent[l].err.cls \in FiveKinds)
         => (sent[k].res.status = sent[l].res.status
               <=> sent[k].err.cls = sent[l].err.cls)

\* two errors with the same message and different kinds have been answered
\* with different statuses
C27_Witness ==
  /\ Len(sent) = 2
  /\ sent[1].err.cls = "ConflictError" /\ sent[2].err.cls = "UnprocessableEntityError"
  /\ sent[1].err.message = sent[2].err.message
  /\ sent[1].res.status # sent[2].res.status

ActionsOf(docs) == [k \in DOMAIN docs |-> docs[k].action]

\* C28: findByMoverId returns every record of the mover and no other, latest
\* first unless ascending order is asked for, then earliest first; when the
\* mover's records were created as loading, on-mission, resting, the default
\* result lists resting, on-mission, loading.
C28_LatestFirst ==
  \A m \in Movers : \A o \in SortOrders :
    LET res == findByMoverId(m, o) IN
      /\ Len(res) = Cardinality(RecordsOf(m))
      /\ \A k \in DOMAIN res :
           /\ res[k].moverId = m
           /\ res[k].createdAt \in RecordsOf(m)
           /\ logs[res[k].createdAt].action = res[k].action
           /\ logs[res[k].createdAt].items = res[k].items
      /\ \A k \in DOMAIN res : \A l \in DOMAIN res :
           k < l => IF o = "asc" THEN res[k].createdAt < res[l].createdAt
                    ELSE res[k].createdAt > res[l].createdAt
      /\ (o = "none" /\ ActionsOf(findByMoverId(m, "asc")) = <<LOADING, ON_MISSION, RESTING>>)
           => ActionsOf(res) = <<RESTING, ON_MISSION, LOADING>>

\* a mover has loaded, started and ended a mission, one call after the other;
\* the default query lists the three records latest first and the ascending
\* one earliest first
C28_Witness ==
  /\ Quiescent
  /\ \E m \in Movers :
       /\ ghost.okCount[m] = 3
       /\ ActionsOf(findByMoverId(m, "none")) = <<RESTING, ON_MISSION, LOADING>>
       /\ ActionsOf(findByMoverId(m, "asc")) = <<LOADING, ON_MISSION, RESTING>>
       /\ \E n \in Movers \ {m} : RecordsOf(n) # {}

\* C29: findTopMovers lists movers by missionsCompleted in non-increasing
\* order, each mover at most once and every mover that passes the filter, and
\* a mover's missionsCompleted is the number of endMission calls that have
\* ended a mission of it.
EndedCalls(m) ==
  Cardinality({k \in RecordsOf(m) : logs[k].action = RESTING})
  + Cardinality({c \in Slots : calls[c].op = "end" /\ calls[c].pc = "log"
                                /\ calls[c].moverId = m})

C29_TopMoversSorted ==
  /\ \A m \in Movers : movers[m].missionsCompleted = EndedCalls(m)
  /\ \A lim \in Limits : \A min \in MinMissions :
       LET res == findTopMovers(lim, min) IN
         /\ \A k \in DOMAIN res : \A l \in DOMAIN res :
              k < l => /\ res[k].missionsCompleted >= res[l].missionsCompleted
                       /\ res[k].id # res[l].id
         /\ \A k \in DOMAIN res :
              /\ res[k].missionsCompleted = EndedCalls(res[k].id)
              /\ min # NoParam => res[k].missionsCompleted >= min
         /\ lim = NoParam =>
              {res[k].id : k \in DOMAIN res} =
                {m \in Movers : min = NoParam \/ EndedCalls(m) >= min}
         /\ lim # NoParam => Len(res) <= lim

\* the mover created second has ended a mission and the first none: the
\* second leads the list
C29_Witness ==
  /\ Quiescent
  /\ movers["m2"].missionsCompleted = 1
  /\ movers["m1"].missionsCompleted = 0
  /\ findTopMovers(NoParam, NoParam) =
       << [id |-> "m2", missionsCompleted |-> 1], [id |-> "m1", missionsCompleted |-> 0] >>
  /\ Len(findTopMovers(NoParam, 1)) = 1

\* the most store accesses a call at this position can still make
StepsLeft(call) ==
  CASE call.op = "load" /\ call.pc = "findAvailable" -> 4
    [] call.op = "load" /\ call.pc = "assign" -> 3
    [] call.op = "load" /\ call.pc = "commit" -> 2
    [] call.op = "end" /\ call.pc = "findByIds" -> 4
    [] call.op = "end" /\ call.pc = "unassign" -> 3
    [] call.op \in {"start", "end"} /\ call.pc = "update" -> 2
    [] call.pc \in {"idle", "done"} -> 0
    [] OTHER -> 1

HasClaimed(c) ==
  calls[c].op = "load" /\ calls[c].pc \in {"rollbackConflict", "commit", "rollbackWeight"}

\* C30: a load that has claimed items reaches, under fair scheduling, either
\* its update with all requested items in the mover's items or a return with
\* every item it claimed released; every call in progress returns; and no
\* step of a call takes it back to an earlier position.
C30_ClaimsSettled ==
  /\ \A c \in Slots :
       HasClaimed(c) ~>
         \/ calls[c].op = "load" /\ calls[c].pc = "log"
         \/ Done(c) /\ calls[c].op = "load" /\ calls[c].res \in {"Conflict", "BadRequest"}
  /\ \A c \in Slots : Running(c) ~> Done(c)
  /\ [][\A c \in Slots :
          /\ (Running(c) /\ calls'[c] # calls[c] /\ calls'[c].pc # calls[c].pc)
               => StepsLeft(calls'[c]) < StepsLeft(calls[c])
          /\ (HasClaimed(c) /\ calls'[c].pc = "log")
               => Range(calls[c].itemIds) \subseteq Range(movers'[calls[c].moverId].items)
          /\ (HasClaimed(c) /\ calls'[c].pc = "done")
               => \A i \in calls[c].claimed : assignedTo'[i] = NULL]_vars

\* a load that claimed its item after another load's availability read has
\* returned; the other load then claimed nothing and has returned Conflict
\* after its rollback
C30_Witness ==
  \E c \in Slots : \E d \in Slots \ {c} :
    /\ Done(c) /\ calls[c].op = "load" /\ calls[c].msg = "Failed to assign items"
    /\ Done(d) /\ calls[d].op = "load" /\ calls[d].res = "OK"
    /\ Range(calls[c].itemIds) \cap Range(calls[d].itemIds) # {}

\* C31: the checks of a load come in the order mover missing (NotFound),
\* mover on-mission (BadRequest), repeated id (UnprocessableEntity), item
\* missing (NotFound), item assigned (Conflict), and the weight limit is
\* looked at only after all of them and after the claim.
C31_ChecksInOrder ==
  [][\A c \in Slots :
       LET ids == calls[c].itemIds
           SomeMissing == \E i \in Range(ids) : i \notin Items
           SomeHeld == \E i \in Range(ids) \cap Items : assignedTo[i] # NULL IN
       /\ (Arrives(c) /\ invoked' = invoked + 1 /\ calls'[c].op = "load")
            => LET m == calls'[c].moverId IN
                 IF m \notin Movers
                   THEN Done(c)' /\ calls'[c].res = "NotFound"
                 ELSE IF movers[m].questState = ON_MISSION
                   THEN Done(c)' /\ calls'[c].res = "BadRequest"
                 ELSE IF RepeatsAnId(calls'[c].itemIds)
                   THEN Done(c)' /\ calls'[c].res = "UnprocessableEntity"
                 ELSE calls'[c].pc = "findAvailable"
       /\ (calls[c].op = "load" /\ calls[c].pc = "findAvailable"
             /\ calls'[c].pc # "findAvailable")
            => IF SomeMissing \/ SomeHeld
                 THEN calls'[c].pc = "findByIds" ELSE calls'[c].pc = "assign"
       /\ (calls[c].op = "load" /\ calls[c].pc = "findByIds"
             /\ calls'[c].pc # "findByIds")
            => IF SomeMissing
                 THEN calls'[c].res = "NotFound" ELSE calls'[c].res = "Conflict"
       /\ (calls[c].op = "load" /\ calls[c].pc = "assign" /\ calls'[c].pc # "assign")
            => calls'[c].pc \in {"commit", "rollbackConflict"}
       /\ (calls[c].op = "load" /\ Running(c)
             /\ calls'[c].msg = "exceeds weight limit")
            => calls[c].pc = "rollbackWeight"]_vars

\* with i1 assigned, a load naming i1 and a missing item has returned
\* NotFound and a load of i1 and i2, heavier than the mover's limit, Conflict
C31_Witness ==
  /\ assignedTo["i1"] # NULL
  /\ \E c \in Slots : \E d \in Slots \ {c} :
       /\ Done(c) /\ calls[c].op = "load" /\ calls[c].moverId \in Movers
       /\ calls[c].itemIds = <<"i1", "iX">> /\ calls[c].res = "NotFound"
       /\ Done(d) /\ calls[d].op = "load" /\ calls[d].itemIds = <<"i1", "i2">>
       /\ calls[d].moverId = "m1" /\ calls[d].res = "Conflict"

\* C32: the update of a startMission changes only the questState of its
\* mover, to on-mission, and its last step only appends one record of that
\* mover; items, currentWeight, missionsCompleted, every assignedTo and the
\* other movers stay as they are.
C32_StartFrame ==
  [][\A c \in Slots :
       LET m == calls[c].moverId IN
       /\ (calls[c].op = "start" /\ calls[c].pc = "update" /\ calls'[c].pc # "update")
            => /\ calls'[c].pc = "log"
               /\ movers'[m].questState = ON_MISSION
               /\ movers'[m].items = movers[m].items
               /\ movers'[m].currentWeight = movers[m].currentWeight
               /\ movers'[m].missionsCompleted = movers[m].missionsCompleted
               /\ \A n \in Movers \ {m} : movers'[n] = movers[n]
               /\ assignedTo' = assignedTo
               /\ logs' = logs
       /\ (calls[c].op = "start" /\ calls[c].pc = "log" /\ calls'[c].pc # "log")
            => /\ calls'[c].res = "OK"
               /\ movers' = movers
               /\ assignedTo' = assignedTo
               /\ Len(logs') = Len(logs) + 1
               /\ SubSeq(logs', 1, Len(logs)) = logs
               /\ logs'[Len(logs')].moverId = m]_vars

\* a startMission has returned success on a mover that holds both items at
\* its full weight
C32_Witness ==
  \E c \in Slots :
    /\ Done(c) /\ calls[c].op = "start" /\ calls[c].res = "OK"
    /\ movers[calls[c].moverId].questState = ON_MISSION
    /\ Len(movers[calls[c].moverId].items) = 2
    /\ movers[calls[c].moverId].currentWeight = 3
    /\ \A i \in Items : assignedTo[i] = calls[c].moverId

\* C35: whenever no call is in progress, an item is in the items of a mover
\* exactly when its assignedTo is that mover.
C35_HolderAgreesWithItems ==
  Quiescent =>
    \A m \in Movers : \A i \in Items :
      i \in Range(movers[m].items) <=> assignedTo[i] = m

\* C36: an on-mission mover has at least one item.
C36_OnMissionHasItems ==
  \A m \in Movers :
    movers[m].questState = ON_MISSION => movers[m].items # <<>>

\* C37: a loading mover has at least one item.
C37_LoadingHasItems ==
  \A m \in Movers :
    movers[m].questState = LOADING => movers[m].items # <<>>

\* a mover is loading again after a mission, while a load that read it
\* before is still in progress
C37_Witness ==
  \E m \in Movers :
    /\ movers[m].questState = LOADING
    /\ movers[m].missionsCompleted >= 1
    /\ \E c \in Slots : calls[c].op = "load" /\ calls[c].pc = "log" /\ calls[c].moverId = m

\* startMission calls that have set the mover on-mission
StartedCalls(m) ==
  Cardinality({k \in RecordsOf(m) : logs[k].action = ON_MISSION})
  + Cardinality({c \in Slots : calls[c].op = "start" /\ calls[c].pc = "log"
                                /\ calls[c].moverId = m})

\* C38: a mover's missionsCompleted, the number of endMission calls that went
\* through, is at most the number of startMission calls that went through.
C38_EndsWithinStarts ==
  \A m \in Movers :
    /\ movers[m].missionsCompleted <= StartedCalls(m)
    /\ EndedCalls(m) <= StartedCalls(m)

\* C39: a mover has at most one startMission gone through per mission: one
\* for each mission ended and one for a mission under way.
C39_OneStartPerMission ==
  \A m \in Movers :
    StartedCalls(m) <=
      movers[m].missionsCompleted
        + (IF movers[m].questState = ON_MISSION THEN 1 ELSE 0)

\* C40: the actions of a mover's records, in creation order, follow
\* (loading+ on-mission resting)*: a loading record comes first or after a
\* resting or loading one, an on-mission record after a loading one, and a
\* resting record after an on-mission one.
C40_RecordsFollowCycle ==
  \A m \in Movers :
    LET acts == ActionsOf(findByMoverId(m, "asc")) IN
      \A k \in DOMAIN acts :
        LET prev == IF k = 1 THEN RESTING ELSE acts[k - 1] IN
          \/ acts[k] = LOADING /\ prev \in {RESTING, LOADING}
          \/ acts[k] = ON_MISSION /\ prev = LOADING
          \/ acts[k] = RESTING /\ prev = ON_MISSION

\* C33: an endMission that reads an on-mission mover one of whose item ids
\* matches no document goes to the existence check with all the mover's item
\* ids, the check then returns InternalServerError, and neither step writes.
C33_MissingItemStopsEnd ==
  [][\A c \in Slots :
       /\ ( /\ FirstStep(c, "end")
            /\ movers[calls'[c].moverId].questState = ON_MISSION
            /\ \E i \in Range(movers[calls'[c].moverId].items) : assignedTo[i] = Deleted )
            => /\ calls'[c].pc = "findByIds"
               /\ calls'[c].snapshot = movers[calls'[c].moverId].items
               /\ StoresUnchanged
       /\ ( /\ calls[c].op = "end" /\ calls[c].pc = "findByIds"
            /\ calls'[c].pc # "findByIds"
            /\ \E i \in Range(calls[c].snapshot) : assignedTo[i] = Deleted )
            => /\ calls'[c].res = "InternalServerError"
               /\ StoresUnchanged]_vars

\* the items a call reads or writes: the ids a load asks for, the items an
\* endMission finds assigned to its mover or listed in it; startMission
\* writes no item
Touches(call) ==
  IF call.op = "load" THEN Range(call.itemIds) \cap Items
  ELSE IF call.op = "end" /\ call.moverId \in Movers
    THEN {i \in Items : assignedTo[i] = call.moverId}
           \cup (Range(movers[call.moverId].items) \cap Items)
  ELSE {}
RecordsIn(l, m) == SelectSeq(l, LAMBDA r : r.moverId = m)
Stepped(d) ==
  [calls'[d] EXCEPT !.took = {}] # [calls[d] EXCEPT !.took = {}]
Disjoint(c, d) ==
  /\ calls[c].moverId # calls'[d].moverId
  /\ Touches(calls[c]) \cap Touches(calls'[d]) = {}

\* C34: a step of one call leaves alone everything of a running call on
\* another mover with no item in common: that call's position and locals, its
\* mover's document, the holders of its items and its mover's records; so the
\* two calls go through the same steps on the same values in any interleaving.
C34_DisjointCallsApart ==
  [][\A c \in Slots : \A d \in Slots \ {c} :
       (Running(c) /\ Stepped(d) /\ Disjoint(c, d))
         => /\ calls'[c] = calls[c]
            /\ calls[c].moverId \in Movers
                 => movers'[calls[c].moverId] = movers[calls[c].moverId]
            /\ \A i \in Touches(calls[c]) : assignedTo'[i] = assignedTo[i]
            /\ RecordsIn(logs', calls[c].moverId)
                 = RecordsIn(logs, calls[c].moverId)]_vars

\* an endMission about to release its mover's items while a load on another
\* mover holds its claim on a different item
C34_Witness ==
  \E c \in Slots : \E d \in Slots \ {c} :
    /\ calls[c].op = "load" /\ calls[c].pc = "commit"
    /\ calls[d].op = "end" /\ calls[d].pc = "unassign"
    /\ calls[c].moverId # calls[d].moverId
    /\ Touches(calls[c]) \cap Touches(calls[d]) = {}
    /\ Touches(calls[c]) # {} /\ Touches(calls[d]) # {}

====
